---------------------------- MODULE Spec2Model ----------------------------
(***************************************************************************)
(* Scrutinizer badges (quality score and test coverage): the two services  *)
(* of services/scrutinizer, as state machines.                             *)
(*                                                                         *)
(* JavaScript numbers are modelled as fixed-point decimals with three      *)
(* fractional digits: the number x is the integer 1000 * x ("thousandths").*)
(* Binary floating-point error (0.575 * 100 = 57.49999999999999) is not    *)
(* modelled.  A JavaScript value is a record [t, v]: t is "number",        *)
(* "undefined" or "NaN", and v the thousandths of a number.                *)
(* A string the code builds character by character (a badge message) is a  *)
(* sequence of one-character strings; Text joins it into a string.         *)
(***************************************************************************)
EXTENDS Integers, Sequences, FiniteSets, TLC

VARIABLES
  fn,        \* pure-function harness: the function applied ("none" before)
  arg,       \* pure-function harness: its numeric input
  res,       \* pure-function harness: its result
  upstream,  \* the JSON document the upstream service holds (never written)
  pc,        \* pc[r]: where request r is: "idle", "awaitFetch", "done"
  req,       \* req[r]: the route, its path parameters, the makeBadge arguments
  nfetch,    \* nfetch[r]: fetches issued for request r
  fetched,   \* fetched[r]: what the fetch collaborator settled with
  result     \* result[r]: steps run, extractor result, outcome of request r

vars == <<fn, arg, res, upstream, pc, req, nfetch, fetched, result>>

-----------------------------------------------------------------------------
(* Bounds of the model *)

\* Largest fine-grained numeric input, in thousandths (10.5).
MaxFineMilli == 10500
\* Largest coarse numeric input, in tenths (110.0).
MaxCoarseTenth == 1100
\* Concurrent requests the framework runs.
NReq == 2

-----------------------------------------------------------------------------
(* JavaScript values *)

Kilo == 10 * 10 * 10

Num(n) == [t |-> "number", v |-> n]
Undefined == [t |-> "undefined", v |-> 0]
NaN == [t |-> "NaN", v |-> 0]

IsNumber(x) == x.t = "number"

\* !x for a number or undefined: undefined, NaN and 0 are falsy.
Falsy(x) == ~IsNumber(x) \/ x.v = 0

\* x * 100: undefined * 100 and NaN * 100 are NaN.
Mul100(x) == IF IsNumber(x) THEN Num(x.v * 100) ELSE NaN

\* Math.round(x): the nearest integer, a tie towards +infinity.
MathRound(x) == IF IsNumber(x) THEN Num(((x.v + 500) \div Kilo) * Kilo) ELSE NaN

\* x / 100, exact on the integers Math.round returns.
Div100(x) == IF IsNumber(x) THEN Num(x.v \div 100) ELSE NaN

Abs(n) == IF n < 0 THEN -n ELSE n

DigitChar(d) == <<"0", "1", "2", "3", "4", "5", "6", "7", "8", "9">>[d + 1]

RECURSIVE Digits(_)
Digits(n) ==
  IF n < 10 THEN <<DigitChar(n)>>
  ELSE Digits(n \div 10) \o <<DigitChar(n % 10)>>

RECURSIVE StripTrailingZeros(_)
StripTrailingZeros(s) ==
  IF s # <<>> /\ s[Len(s)] = "0"
  THEN StripTrailingZeros(SubSeq(s, 1, Len(s) - 1))
  ELSE s

NaNChars == <<"N", "a", "N">>

\* `${x}` for a number: Number::toString. No fraction for an integer, no
\* trailing zeros in a fraction.
NumberToString(x) ==
  IF ~IsNumber(x) THEN NaNChars
  ELSE LET a == Abs(x.v)
           f == a % Kilo
           frac == StripTrailingZeros(
                     <<DigitChar(f \div 100), DigitChar((f \div 10) % 10),
                       DigitChar(f % 10)>>)
       IN (IF x.v < 0 THEN <<"-">> ELSE <<>>)
          \o Digits(a \div Kilo)
          \o (IF frac = <<>> THEN <<>> ELSE <<".">> \o frac)

\* x.toFixed(0): the nearest integer, a tie away from zero.
ToFixed0(x) ==
  IF ~IsNumber(x) THEN NaNChars
  ELSE (IF x.v < 0 THEN <<"-">> ELSE <<>>)
       \o Digits((Abs(x.v) + 500) \div Kilo)

RECURSIVE Text(_)
Text(s) == IF s = <<>> THEN "" ELSE Text(SubSeq(s, 1, Len(s) - 1)) \o s[Len(s)]

-----------------------------------------------------------------------------
(* Color scales *)

\* colorScale(steps, colors): the color whose index is the number of steps
\* that are <= value (a comparison with NaN or undefined is false).
colorScale(steps, colors, value) ==
  colors[1 + Cardinality({i \in DOMAIN steps :
                            IsNumber(value) /\ steps[i] * Kilo <= value.v})]

\* Mutant: the top threshold one step too high.
qualityStepsOff == <<4, 5, 7, 10>>

qualitySteps == <<4, 5, 7, 9>>
qualityColors == <<"red", "orange", "yellow", "green", "brightgreen">>

\* Mutant: the top threshold at 60.
coverageStepsSixty == <<40, 60>>

coverageSteps == <<40, 61>>
coverageColors == <<"red", "yellow", "brightgreen">>

qualityScale(value) == colorScale(qualitySteps, qualityColors, value)

coverageScale(value) == colorScale(coverageSteps, coverageColors, value)

-----------------------------------------------------------------------------
(* JSON documents: an object is a function from its keys *)

EmptyObject == [k \in {} |-> 0]

Has(obj, key) == key \in DOMAIN obj

QualityKey == "scrutinizer.quality"
CoverageKey == "scrutinizer.test_coverage"
MetricKeys == {QualityKey, CoverageKey}

\* No branch in the path: the route's optional :branch* is undefined.
NoBranch == ""

\* schema, one application entry: index is optional; inside it _embedded,
\* project and metric_values are required; the metric is optional and, when
\* present, a positive number.
applicationSchema(app, metric) ==
  Has(app, "index") =>
    /\ Has(app["index"], "_embedded")
    /\ Has(app["index"]["_embedded"], "project")
    /\ Has(app["index"]["_embedded"]["project"], "metric_values")
    /\ LET mv == app["index"]["_embedded"]["project"]["metric_values"]
       IN Has(mv, metric) => (IsNumber(mv[metric]) /\ mv[metric].v > 0)

\* schema: default_branch and applications are required. Keys the schema
\* does not name (the other metrics of metric_values) are let through.
reportSchema(json, metric) ==
  /\ Has(json, "default_branch")
  /\ Has(json, "applications")
  /\ \A b \in DOMAIN json["applications"] :
       applicationSchema(json["applications"][b], metric)

qualitySchema(json) == reportSchema(json, QualityKey)

coverageSchema(json) == reportSchema(json, CoverageKey)

-----------------------------------------------------------------------------
(* Results of the steps of a request *)

Returned(branch, value) ==
  [kind |-> "value", branch |-> branch, value |-> value, error |-> ""]
Thrown(kind, msg) ==
  [kind |-> kind, branch |-> "", value |-> Undefined, error |-> msg]
NotRun == [kind |-> "notrun", branch |-> "", value |-> Undefined, error |-> ""]

Badge(b) == [kind |-> "badge", message |-> b.message, color |-> b.color,
             error |-> ""]
NoBadge(kind, msg) == [kind |-> kind, message |-> <<>>, color |-> "",
                       error |-> msg]

\* ScrutinizerBase.fetch, the collaborator behind `await this.fetch(...)`:
\* a transport failure rejects; a body that violates the schema rejects;
\* otherwise it resolves with the validated document.
fetch(schemaOk, transportOk, body) ==
  IF ~transportOk
  THEN [status |-> "rejected", steps |-> <<"fetch">>, json |-> EmptyObject,
        error |-> "inaccessible"]
  ELSE IF ~schemaOk
  THEN [status |-> "rejected", steps |-> <<"fetch", "validate">>,
        json |-> EmptyObject, error |-> "invalid response data"]
  ELSE [status |-> "resolved", steps |-> <<"fetch", "validate">>,
        json |-> body, error |-> ""]

HasMetricValues(app) ==
  /\ Has(app, "index")
  /\ Has(app["index"], "_embedded")
  /\ Has(app["index"]["_embedded"], "project")
  /\ Has(app["index"]["_embedded"]["project"], "metric_values")

\* ScrutinizerBase.transformBranchInfoMetricValue: the effective branch is
\* the given one when non-empty, else default_branch; an unknown branch or a
\* missing intermediate key (index, _embedded, project, metric_values) is
\* not-found; otherwise the value read at metric_values[metric] is returned,
\* undefined when the document has no such key (the coverage transform's
\* falsy check is what handles that read).
transformBranchInfoMetricValue(json, branch, metric) ==
  LET effective == IF branch # NoBranch THEN branch ELSE json["default_branch"]
  IN IF ~Has(json["applications"], effective)
     THEN Thrown("notfound", "branch not found")
     ELSE LET app == json["applications"][effective]
          IN IF ~HasMetricValues(app)
             THEN Thrown("notfound", "branch not found")
             ELSE LET mv == app["index"]["_embedded"]["project"]["metric_values"]
                  IN Returned(effective,
                              IF Has(mv, metric) THEN mv[metric] ELSE Undefined)

-----------------------------------------------------------------------------
(* Quality *)

\* Mutant: the color taken from the rounded score.
QualityRenderRounded(score) ==
  [message |-> NumberToString(Div100(MathRound(Mul100(score)))),
   color |-> qualityScale(Div100(MathRound(Mul100(score))))]

QualityRender(score) ==
  [message |-> NumberToString(Div100(MathRound(Mul100(score)))),
   color |-> qualityScale(score)]

\* Mutant: a not-found from the extractor is ignored and its value rendered.
QualityMakeBadgeFallback(settled, branch) ==
  IF settled.status = "rejected"
  THEN [steps |-> settled.steps, extracted |-> NotRun,
        outcome |-> NoBadge("error", settled.error)]
  ELSE LET e == transformBranchInfoMetricValue(settled.json, branch, QualityKey)
       IN [steps |-> settled.steps \o <<"extract", "render">>,
           extracted |-> e,
           outcome |-> Badge(QualityRender(e.value))]

\* makeBadge after the await: extract, then render.
QualityMakeBadge(settled, branch) ==
  IF settled.status = "rejected"
  THEN [steps |-> settled.steps, extracted |-> NotRun,
        outcome |-> NoBadge("error", settled.error)]
  ELSE LET e == transformBranchInfoMetricValue(settled.json, branch, QualityKey)
       IN IF e.kind = "notfound"
          THEN [steps |-> settled.steps \o <<"extract">>, extracted |-> e,
                outcome |-> NoBadge("notfound", e.error)]
          ELSE [steps |-> settled.steps \o <<"extract", "render">>,
                extracted |-> e,
                outcome |-> Badge(QualityRender(e.value))]

-----------------------------------------------------------------------------
(* Coverage *)

\* Mutant: the percentage truncated instead of rounded.
CoverageRenderTruncating(coverage) ==
  [message |-> (IF IsNumber(coverage) THEN Digits(Abs(coverage.v) \div Kilo)
                ELSE NaNChars) \o <<"%">>,
   color |-> coverageScale(coverage)]

CoverageRender(coverage) ==
  [message |-> ToFixed0(coverage) \o <<"%">>,
   color |-> coverageScale(coverage)]

\* Mutant: the branch is not passed on to the extractor.
CoverageExtractDefaultBranch(json, branch) ==
  transformBranchInfoMetricValue(json, NoBranch, CoverageKey)

\* transform's call of the extractor.
CoverageExtract(json, branch) ==
  transformBranchInfoMetricValue(json, branch, CoverageKey)

\* Mutant: no falsy check on the raw value.
CoverageTransformUnchecked(json, branch) ==
  LET e == CoverageExtract(json, branch)
  IN IF e.kind = "notfound" THEN e
     ELSE Returned(e.branch, Mul100(e.value))

CoverageTransform(json, branch) ==
  LET e == CoverageExtract(json, branch)
  IN IF e.kind = "notfound" THEN e
     ELSE IF Falsy(e.value) THEN Thrown("notfound", "coverage not found")
     ELSE Returned(e.branch, Mul100(e.value))

CoverageMakeBadge(settled, branch) ==
  IF settled.status = "rejected"
  THEN [steps |-> settled.steps, extracted |-> NotRun,
        outcome |-> NoBadge("error", settled.error)]
  ELSE LET e == CoverageExtract(settled.json, branch)
           t == CoverageTransform(settled.json, branch)
       IN IF t.kind = "notfound"
          THEN [steps |-> settled.steps \o <<"extract">>, extracted |-> e,
                outcome |-> NoBadge("notfound", t.error)]
          ELSE [steps |-> settled.steps \o <<"extract", "render">>,
                extracted |-> e,
                outcome |-> Badge(CoverageRender(t.value))]

-----------------------------------------------------------------------------
(* Route handlers: path parameters to makeBadge's { vcs, slug, branch } *)

ScrutinizerQuality_handle(p) ==
  [vcs |-> p.vcs, slug |-> p.user \o "/" \o p.repo, branch |-> p.branch]

ScrutinizerQualityGitLab_handle(p) ==
  [vcs |-> "gl", slug |-> p.instance \o "/" \o p.user \o "/" \o p.repo,
   branch |-> p.branch]

ScrutinizerQualityPlainGit_handle(p) ==
  [vcs |-> "gp", slug |-> p.slug, branch |-> p.branch]

ScrutinizerCoverage_handle(p) ==
  [vcs |-> p.vcs, slug |-> p.user \o "/" \o p.repo, branch |-> p.branch]

\* Mutant: the GitLab instance left out of the slug.
ScrutinizerCoverageGitLab_handleNoInstance(p) ==
  [vcs |-> "gl", slug |-> p.user \o "/" \o p.repo, branch |-> p.branch]

ScrutinizerCoverageGitLab_handle(p) ==
  [vcs |-> "gl", slug |-> p.instance \o "/" \o p.user \o "/" \o p.repo,
   branch |-> p.branch]

ScrutinizerCoveragePlainGit_handle(p) ==
  [vcs |-> "gp", slug |-> p.slug, branch |-> p.branch]

\* The routing framework's dispatch: route.base and route.pattern pick the class.
handle(p) ==
  CASE p.metric = "quality" /\ p.route = "hosted" -> ScrutinizerQuality_handle(p)
    [] p.metric = "quality" /\ p.route = "gitlab" -> ScrutinizerQualityGitLab_handle(p)
    [] p.metric = "quality" /\ p.route = "plaingit" -> ScrutinizerQualityPlainGit_handle(p)
    [] p.metric = "coverage" /\ p.route = "hosted" -> ScrutinizerCoverage_handle(p)
    [] p.metric = "coverage" /\ p.route = "gitlab" -> ScrutinizerCoverageGitLab_handle(p)
    [] p.metric = "coverage" /\ p.route = "plaingit" -> ScrutinizerCoveragePlainGit_handle(p)

\* makeBadge up to the await: the arguments of this.fetch({ schema, vcs, slug }).
fetchArgs(call) == [vcs |-> call.vcs, slug |-> call.slug]

\* Mutant: the branch kept in one place shared by all requests.
branchOfShared(r) == req[1].call.branch

\* makeBadge's own `branch` parameter, private to the call of request r.
branchOf(r) == req[r].call.branch

schemaOf(metric, json) ==
  IF metric = "quality" THEN qualitySchema(json) ELSE coverageSchema(json)

makeBadge(metric, settled, branch) ==
  IF metric = "quality" THEN QualityMakeBadge(settled, branch)
  ELSE CoverageMakeBadge(settled, branch)

-----------------------------------------------------------------------------
(* Inputs: parsed paths and upstream documents *)

Metrics == {"quality", "coverage"}
BranchNames == {"master", "dev"}
Selectors == {NoBranch, "master", "unknown"}

Path(m, route, vcs, instance, user, repo, slug, branch) ==
  [metric |-> m, route |-> route, vcs |-> vcs, instance |-> instance,
   user |-> user, repo |-> repo, slug |-> slug, branch |-> branch]

HostedPaths(m, b) ==
  {Path(m, "hosted", "g", "", "filp", "whoops", "", b),
   Path(m, "hosted", "b", "", "atlassian", "python-bitbucket", "", b)}
GitLabPaths(m, b) ==
  {Path(m, "gitlab", "", "propertywindow", "propertywindow", "client", "", b)}
PlainGitPaths(m, b) ==
  {Path(m, "plaingit", "", "", "", "", "git.example.com/filp/whoops", b)}

AllPaths ==
  UNION {HostedPaths(m, b) \cup GitLabPaths(m, b) \cup PlainGitPaths(m, b) :
           m \in Metrics, b \in Selectors}

\* The paths of the concurrent specification: both metrics, the three routes,
\* with and without a branch.
FewPaths ==
  {Path("quality", "hosted", "g", "", "filp", "whoops", "", NoBranch),
   Path("quality", "gitlab", "", "propertywindow", "propertywindow", "client",
        "", "dev"),
   Path("coverage", "plaingit", "", "", "", "", "git.example.com/filp/whoops",
        "master"),
   Path("coverage", "hosted", "b", "", "atlassian", "python-bitbucket", "",
        "unknown")}

NoPath == Path("", "", "", "", "", "", "", "")

MetricValues == {Num(0), Num(755), Num(8333)}

MetricValuesObjects == UNION {[D -> MetricValues] : D \in SUBSET MetricKeys}

WithMetricValues(mv) ==
  "index" :> ("_embedded" :> ("project" :> ("metric_values" :> mv)))

ApplicationObjects ==
  {EmptyObject,
   "index" :> EmptyObject,
   "index" :> ("_embedded" :> EmptyObject),
   "index" :> ("_embedded" :> ("project" :> EmptyObject))}
  \cup {WithMetricValues(mv) : mv \in MetricValuesObjects}

ApplicationsObjects ==
  UNION {[D -> ApplicationObjects] : D \in SUBSET BranchNames}

\* Every body the upstream may answer with, schema-valid or not.
AllResponses ==
  {("default_branch" :> d) @@ ("applications" :> a) :
     d \in BranchNames, a \in ApplicationsObjects}
  \cup {"applications" :> a : a \in ApplicationsObjects}
  \cup {"default_branch" :> d : d \in BranchNames}

Report(d, apps) == ("default_branch" :> d) @@ ("applications" :> apps)

SampleResponses ==
  {Report("master", ("master" :> WithMetricValues((QualityKey :> Num(8333))
                                     @@ (CoverageKey :> Num(755))))
                    @@ ("dev" :> WithMetricValues((QualityKey :> Num(755))))),
   Report("dev", ("master" :> WithMetricValues((CoverageKey :> Num(8333))))
                 @@ ("dev" :> EmptyObject)),
   Report("master", ("master" :> WithMetricValues((QualityKey :> Num(0))
                                     @@ (CoverageKey :> Num(755))))),
   "applications" :> EmptyObject}

-----------------------------------------------------------------------------
(* The request state machine *)

Idle == [path |-> NoPath, call |-> [vcs |-> "", slug |-> "", branch |-> ""],
         fetch |-> [vcs |-> "", slug |-> ""]]
NotSettled == [status |-> "pending", steps |-> <<>>, json |-> EmptyObject,
               error |-> ""]
NoResult == [steps |-> <<>>, extracted |-> NotRun, outcome |-> NoBadge("none", "")]

NoRes == [kind |-> "none", message |-> <<>>, color |-> "", error |-> "",
          value |-> Undefined]

InitRequests(responses) ==
  /\ fn = "none" /\ arg = Undefined /\ res = NoRes
  /\ upstream \in responses
  /\ pc = [r \in 1..NReq |-> "idle"]
  /\ req = [r \in 1..NReq |-> Idle]
  /\ nfetch = [r \in 1..NReq |-> 0]
  /\ fetched = [r \in 1..NReq |-> NotSettled]
  /\ result = [r \in 1..NReq |-> NoResult]

\* The framework routes a parsed path to its handler, which calls makeBadge;
\* makeBadge issues the fetch and suspends at the await.
Handle(r, p) ==
  /\ pc[r] = "idle"
  /\ LET call == handle(p)
     IN req' = [req EXCEPT ![r] = [path |-> p, call |-> call,
                                   fetch |-> fetchArgs(call)]]
  /\ nfetch' = [nfetch EXCEPT ![r] = @ + 1]
  /\ pc' = [pc EXCEPT ![r] = "awaitFetch"]
  /\ UNCHANGED <<fn, arg, res, upstream, fetched, result>>

\* The fetch of request r settles and makeBadge runs to its end.
FetchSettles(r, transportOk) ==
  /\ pc[r] = "awaitFetch"
  /\ LET settled == fetch(schemaOf(req[r].path.metric, upstream), transportOk,
                          upstream)
     IN /\ fetched' = [fetched EXCEPT ![r] = settled]
        /\ result' = [result EXCEPT ![r] =
                        makeBadge(req[r].path.metric, settled, branchOf(r))]
  /\ pc' = [pc EXCEPT ![r] = "done"]
  /\ UNCHANGED <<fn, arg, res, upstream, req, nfetch>>

NextRequests(n, paths) ==
  \E r \in 1..n :
    \/ \E p \in paths : Handle(r, p)
    \/ \E ok \in BOOLEAN : FetchSettles(r, ok)

\* One request at a time: every route, every upstream document.
InitOne == InitRequests(AllResponses)
NextOne == NextRequests(1, AllPaths)
SpecOne == InitOne /\ [][NextOne]_vars

\* Concurrent requests.
Init == InitRequests(SampleResponses)
Next == NextRequests(NReq, FewPaths)
Spec == Init /\ [][Next]_vars

-----------------------------------------------------------------------------
(* The pure functions, applied to one numeric input *)

PureInputs ==
  {Num(v) : v \in -Kilo..MaxFineMilli}
  \cup {Num(100 * k) : k \in 0..MaxCoarseTenth}
  \cup {Undefined}

InitPure ==
  /\ fn = "none" /\ arg \in PureInputs /\ res = NoRes
  /\ upstream = EmptyObject
  /\ pc = [r \in 1..NReq |-> "idle"]
  /\ req = [r \in 1..NReq |-> Idle]
  /\ nfetch = [r \in 1..NReq |-> 0]
  /\ fetched = [r \in 1..NReq |-> NotSettled]
  /\ result = [r \in 1..NReq |-> NoResult]

Applied(name, r) ==
  /\ fn = "none"
  /\ fn' = name
  /\ res' = r
  /\ UNCHANGED <<arg, upstream, pc, req, nfetch, fetched, result>>

\* scale(value) of the quality service, on any finite number.
ApplyQualityScale ==
  /\ IsNumber(arg)
  /\ Applied("qualityScale", [NoRes EXCEPT !.kind = "color",
                                           !.color = qualityScale(arg)])

\* scale(value) of the coverage service, on any finite number.
ApplyCoverageScale ==
  /\ IsNumber(arg)
  /\ Applied("coverageScale", [NoRes EXCEPT !.kind = "color",
                                            !.color = coverageScale(arg)])

\* render({ score }) on a score the schema admits (a positive number).
ApplyQualityRender ==
  /\ IsNumber(arg) /\ arg.v > 0
  /\ LET b == QualityRender(arg)
     IN Applied("qualityRender", [NoRes EXCEPT !.kind = "badge",
                                               !.message = b.message,
                                               !.color = b.color])

\* The document whose default branch carries the raw coverage arg (no
\* test_coverage key when arg is undefined).
CoverageDocument(raw) ==
  Report("master",
         "master" :> WithMetricValues(IF raw = Undefined THEN EmptyObject
                                      ELSE CoverageKey :> raw))

\* transform({ json, branch }) and then, as in makeBadge, render: called
\* directly on a document, so a zero raw value is an input too.
ApplyCoverage ==
  /\ arg = Undefined \/ arg.v >= 0
  /\ LET t == CoverageTransform(CoverageDocument(arg), NoBranch)
     IN IF t.kind = "notfound"
        THEN Applied("coverage", [NoRes EXCEPT !.kind = "notfound",
                                               !.error = t.error])
        ELSE LET b == CoverageRender(t.value)
             IN Applied("coverage", [kind |-> "badge", message |-> b.message,
                                     color |-> b.color, error |-> "",
                                     value |-> t.value])

NextPure ==
  \/ ApplyQualityScale
  \/ ApplyCoverageScale
  \/ ApplyQualityRender
  \/ ApplyCoverage

SpecPure == InitPure /\ [][NextPure]_vars

-----------------------------------------------------------------------------
(* Properties: what the statements below are written in *)

\* The quality color of a number, by its interval.
QualityBucket(v) ==
  IF v < 4 * Kilo THEN "red"
  ELSE IF v < 5 * Kilo THEN "orange"
  ELSE IF v < 7 * Kilo THEN "yellow"
  ELSE IF v < 9 * Kilo THEN "green"
  ELSE "brightgreen"

\* The coverage color of a number, by its interval.
CoverageBucket(v) ==
  IF v < 40 * Kilo THEN "red"
  ELSE IF v < 61 * Kilo THEN "yellow"
  ELSE "brightgreen"

DigitChars == {"0", "1", "2", "3", "4", "5", "6", "7", "8", "9"}

DigitValue(c) ==
  CASE c = "0" -> 0 [] c = "1" -> 1 [] c = "2" -> 2 [] c = "3" -> 3
    [] c = "4" -> 4 [] c = "5" -> 5 [] c = "6" -> 6 [] c = "7" -> 7
    [] c = "8" -> 8 [] c = "9" -> 9

RECURSIVE DigitsValue(_)
DigitsValue(s) ==
  IF s = <<>> THEN 0
  ELSE 10 * DigitsValue(SubSeq(s, 1, Len(s) - 1)) + DigitValue(s[Len(s)])

AllDigits(s) == \A i \in DOMAIN s : s[i] \in DigitChars

\* A decimal integer with no leading zero.
CanonicalInteger(s) == Len(s) >= 1 /\ AllDigits(s) /\ (Len(s) > 1 => s[1] # "0")

DotAt(s) ==
  IF \E i \in DOMAIN s : s[i] = "." THEN CHOOSE i \in DOMAIN s : s[i] = "."
  ELSE 0

IntegerPart(s) == IF DotAt(s) = 0 THEN s ELSE SubSeq(s, 1, DotAt(s) - 1)
FractionPart(s) == IF DotAt(s) = 0 THEN <<>> ELSE SubSeq(s, DotAt(s) + 1, Len(s))

\* A decimal with at most two fraction digits, none of them a trailing
\* zero, and no dot without a fraction.
CanonicalDecimal(s) ==
  /\ CanonicalInteger(IntegerPart(s))
  /\ AllDigits(FractionPart(s))
  /\ Len(FractionPart(s)) <= 2
  /\ DotAt(s) # 0 => /\ Len(FractionPart(s)) >= 1
                     /\ s[Len(s)] # "0"

\* The number a canonical decimal denotes, in hundredths.
Hundredths(s) ==
  100 * DigitsValue(IntegerPart(s))
  + (IF Len(FractionPart(s)) = 1 THEN 10 * DigitValue(FractionPart(s)[1])
     ELSE DigitsValue(FractionPart(s)))

-----------------------------------------------------------------------------
(* C4 *)

\* C4 as stated: the quality scale maps 3.9 to red, 4 to orange, 6.9 to
\* orange, 7 to yellow, 9 to brightgreen and 9.5 to brightgreen.
C4_QualityScaleListedValues ==
  fn = "qualityScale" =>
    /\ arg.v = 3900 => res.color = "red"
    /\ arg.v = 4000 => res.color = "orange"
    /\ arg.v = 6900 => res.color = "orange"
    /\ arg.v = 7000 => res.color = "yellow"
    /\ arg.v = 9000 => res.color = "brightgreen"
    /\ arg.v = 9500 => res.color = "brightgreen"

\* C4 amended: the quality scale maps 3.9 to red, 4 to orange, 6.9 to
\* yellow, 7 to green, 9 to brightgreen and 9.5 to brightgreen.
C4_QualityScaleListedValuesAmended ==
  fn = "qualityScale" =>
    /\ arg.v = 3900 => res.color = "red"
    /\ arg.v = 4000 => res.color = "orange"
    /\ arg.v = 6900 => res.color = "yellow"
    /\ arg.v = 7000 => res.color = "green"
    /\ arg.v = 9000 => res.color = "brightgreen"
    /\ arg.v = 9500 => res.color = "brightgreen"

\* The quality scale applied to 6.9 returned yellow.
C4_Witness == fn = "qualityScale" /\ arg.v = 6900 /\ res.color = "yellow"

-----------------------------------------------------------------------------
(* C5 *)

-----------------------------------------------------------------------------
(* C6 *)

\* The part of C6 that holds for every score: the message is a decimal with
\* at most two fraction digits and no trailing zero that denotes the
\* hundredth nearest to the score, and the color is the bucket of the raw
\* score.
QualityRenderRounds ==
  fn = "qualityRender" =>
    /\ CanonicalDecimal(res.message)
    /\ Abs(arg.v - 10 * Hundredths(res.message)) <= 5
    /\ res.color = QualityBucket(arg.v)

\* C6 as stated: the message is the score rounded to two decimals with no
\* trailing zeros, the color is the scale of the raw score, render(7.5) is
\* ("7.5", yellow) and render(8.333) is ("8.33", green).
C6_QualityRender ==
  /\ QualityRenderRounds
  /\ fn = "qualityRender" /\ arg.v = 7500 =>
       Text(res.message) = "7.5" /\ res.color = "yellow"
  /\ fn = "qualityRender" /\ arg.v = 8333 =>
       Text(res.message) = "8.33" /\ res.color = "green"

\* C6 amended: as stated, except that render(7.5) is ("7.5", green).
C6_QualityRenderAmended ==
  /\ QualityRenderRounds
  /\ fn = "qualityRender" /\ arg.v = 7500 =>
       Text(res.message) = "7.5" /\ res.color = "green"
  /\ fn = "qualityRender" /\ arg.v = 8333 =>
       Text(res.message) = "8.33" /\ res.color = "green"

\* A score just below a threshold: render(6.995) has the message "7" and
\* the color of the bucket below 7.
C6_Witness ==
  /\ fn = "qualityRender" /\ arg.v = 6995
  /\ Text(res.message) = "7" /\ res.color = "yellow"

-----------------------------------------------------------------------------
(* C7 *)

\* C7: for every truthy raw fraction, transform returns coverage = raw * 100
\* and render returns the nearest integer to that coverage followed by "%",
\* with the coverage color of the unrounded coverage; raw 0.755 gives
\* coverage 75.5 and ("76%", brightgreen).
C7_CoverageTransformRender ==
  fn = "coverage" /\ ~Falsy(arg) =>
    /\ res.kind = "badge"
    /\ res.value = Num(100 * arg.v)
    /\ Len(res.message) >= 2
    /\ res.message[Len(res.message)] = "%"
    /\ LET n == SubSeq(res.message, 1, Len(res.message) - 1)
       IN /\ CanonicalInteger(n)
          /\ Abs(100 * arg.v - Kilo * DigitsValue(n)) <= 500
    /\ res.color = CoverageBucket(100 * arg.v)
    /\ arg.v = 755 => /\ res.value = Num(75500)
                      /\ Text(res.message) = "76%"
                      /\ res.color = "brightgreen"

\* Raw 0.755 was transformed and rendered as "76%".
C7_Witness ==
  fn = "coverage" /\ arg = Num(755) /\ Text(res.message) = "76%"

-----------------------------------------------------------------------------
(* Requests: what the statements below read off the state *)

Done(r) == pc[r] = "done"
Validated(r) == Done(r) /\ fetched[r].status = "resolved"

KeyOf(r) == IF req[r].path.metric = "quality" THEN QualityKey ELSE CoverageKey

\* The effective branch of request r: the path's branch when non-empty, else
\* the document's default_branch.
EffectiveBranch(r) ==
  IF req[r].path.branch # "" THEN req[r].path.branch
  ELSE fetched[r].json["default_branch"]

BranchKnown(r) == EffectiveBranch(r) \in DOMAIN fetched[r].json["applications"]

Application(r) == fetched[r].json["applications"][EffectiveBranch(r)]

\* index._embedded.project.metric_values exists on the effective branch.
MetricValuesExist(r) ==
  /\ BranchKnown(r)
  /\ "index" \in DOMAIN Application(r)
  /\ "_embedded" \in DOMAIN Application(r)["index"]
  /\ "project" \in DOMAIN Application(r)["index"]["_embedded"]
  /\ "metric_values" \in DOMAIN Application(r)["index"]["_embedded"]["project"]

MetricValuesOf(r) ==
  Application(r)["index"]["_embedded"]["project"]["metric_values"]

\* The whole path, metric key included, exists.
MetricExists(r) == MetricValuesExist(r) /\ KeyOf(r) \in DOMAIN MetricValuesOf(r)

-----------------------------------------------------------------------------
(* C1 *)

-----------------------------------------------------------------------------
(* C2 *)

-----------------------------------------------------------------------------
(* C3 *)

\* C3: a quality request returns a badge only when the resolved branch is in
\* applications and carries a scrutinizer.quality value; on a schema-valid
\* document where the branch is absent, has no index path or has no
\* scrutinizer.quality key, the outcome is not-found.
C3_QualityBadgeNeedsScore ==
  \A r \in 1..NReq :
    (Validated(r) /\ req[r].path.metric = "quality") =>
      /\ result[r].outcome.kind = "badge" => MetricExists(r)
      /\ ~MetricExists(r) => result[r].outcome.kind = "notfound"

-----------------------------------------------------------------------------
(* C8 *)

\* C8: for both metrics, the hosted handler calls makeBadge with the path's
\* vcs and slug "user/repo", the GitLab handler with vcs "gl" and slug
\* "instance/user/repo", the plain-Git handler with vcs "gp" and the path's
\* slug; the branch is passed through unchanged and the fetch is issued with
\* that (vcs, slug).
C8_SlugAssembly ==
  \A r \in 1..NReq : pc[r] # "idle" =>
    LET p == req[r].path
        c == req[r].call
    IN /\ p.route = "hosted" =>
            c.vcs = p.vcs /\ c.slug = p.user \o "/" \o p.repo
       /\ p.route = "gitlab" =>
            c.vcs = "gl" /\ c.slug = p.instance \o "/" \o p.user \o "/" \o p.repo
       /\ (/\ p.route = "gitlab" /\ p.instance = "propertywindow"
           /\ p.user = "propertywindow" /\ p.repo = "client") =>
            c.slug = "propertywindow/propertywindow/client"
       /\ p.route = "plaingit" => c.vcs = "gp" /\ c.slug = p.slug
       /\ c.branch = p.branch
       /\ req[r].fetch = [vcs |-> c.vcs, slug |-> c.slug]
       /\ nfetch[r] = 1

\* The coverage GitLab handler issued the fetch for
\* ("gl", "propertywindow/propertywindow/client").
C8_Witness ==
  \E r \in 1..NReq :
    /\ pc[r] = "awaitFetch"
    /\ req[r].path.metric = "coverage" /\ req[r].path.route = "gitlab"
    /\ req[r].fetch = [vcs |-> "gl",
                       slug |-> "propertywindow/propertywindow/client"]

-----------------------------------------------------------------------------
(* C9 *)

AllSteps == <<"fetch", "validate", "extract", "render">>

\* C9: every request issues exactly one fetch and runs fetch, validation,
\* extraction, render in that order: nothing runs before the fetch settles;
\* a fetch failure or schema violation ends the request with that error
\* without extraction or render; a not-found ends it without render; a badge
\* is returned only when all four steps ran.
C9_StepOrder ==
  \A r \in 1..NReq :
    /\ pc[r] = "idle" => nfetch[r] = 0 /\ result[r] = NoResult
    /\ pc[r] = "awaitFetch" => nfetch[r] = 1 /\ result[r] = NoResult
    /\ Done(r) =>
         /\ nfetch[r] = 1
         /\ Len(result[r].steps) <= 4
         /\ result[r].steps = SubSeq(AllSteps, 1, Len(result[r].steps))
         /\ fetched[r].status = "rejected" =>
              /\ result[r].steps = fetched[r].steps
              /\ Len(result[r].steps) <= 2
              /\ result[r].extracted = NotRun
              /\ result[r].outcome = NoBadge("error", fetched[r].error)
         /\ fetched[r].status = "resolved" =>
              /\ schemaOf(req[r].path.metric, upstream)
              /\ fetched[r].json = upstream
              /\ Len(result[r].steps) >= 3
         /\ result[r].extracted.kind = "notfound" =>
              result[r].outcome.kind = "notfound"
         /\ result[r].outcome.kind = "notfound" => result[r].steps # AllSteps
         /\ result[r].outcome.kind = "badge" <=> result[r].steps = AllSteps
         /\ result[r].outcome.kind \in {"badge", "notfound", "error"}

\* One request ended with a badge after all four steps while another ended
\* with the schema violation after fetch and validation only.
C9_Witness ==
  \E r, q \in 1..NReq :
    /\ Done(r) /\ result[r].outcome.kind = "badge" /\ result[r].steps = AllSteps
    /\ Done(q) /\ result[q].outcome = NoBadge("error", "invalid response data")
    /\ result[q].steps = <<"fetch", "validate">>

-----------------------------------------------------------------------------
(* C10 *)

=============================================================================
